---- MODULE Spec2Model ----
(***************************************************************************)
(* Model of scripts/embedded-cli/reapply_overlays.py: the overlay          *)
(* reconciler that re-applies the fork's edits to README.md,               *)
(* tools/CMakeLists.txt and .github/workflows/release.yml.                 *)
(*                                                                         *)
(* Text.  A document is a sequence of text fragments whose concatenation   *)
(* is the file's content.  A fragment is one of                            *)
(*   - the newline "\n" (NL),                                              *)
(*   - a run of spaces (SP2 .. SP12, SPACE),                               *)
(*   - the list-item prefix "- " (DASH),                                   *)
(*   - a body text with no newline and no leading or trailing space.       *)
(* Every string literal of the script is written as the sequence of its    *)
(* fragments, so that str.startswith, in, str.index and str.replace      *)
(* become prefix test, search and replacement on fragment sequences.       *)
(* The documents of Init are built so that every occurrence of a literal   *)
(* in the concatenated text starts and ends at a fragment boundary.        *)
(***************************************************************************)
EXTENDS Integers, Sequences, FiniteSets, TLC

(***************************************************************************)
(* Fragments                                                               *)
(***************************************************************************)
NL == "\n"
SPACE == " "
SP2 == "  "
SP4 == "    "
SP6 == "      "
SP8 == "        "
SP10 == "          "
SP12 == "            "
DASH == "- "
Whitespace == {SPACE, SP2, SP4, SP6, SP8, SP10, SP12, NL}

(***************************************************************************)
(* Python str operations on fragment sequences                             *)
(***************************************************************************)
\* p occurs in d at position i
OccursAt(d, p, i) ==
    /\ i >= 1
    /\ i + Len(p) - 1 <= Len(d)
    /\ \A j \in 1..Len(p) : d[i + j - 1] = p[j]

\* str.find: the least position where p occurs, or 0
Find(d, p) ==
    LET at == {i \in 1..(Len(d) - Len(p) + 1) : OccursAt(d, p, i)}
    IN  IF at = {} THEN 0 ELSE CHOOSE i \in at : \A j \in at : i <= j

\* p in d
Contains(d, p) == Find(d, p) # 0

\* d.startswith(p)
StartsWith(d, p) == OccursAt(d, p, 1)

\* d[i:] with i a 0-based offset, as a fragment sequence
From(d, i) == SubSeq(d, i + 1, Len(d))

\* d[:i]
Upto(d, i) == SubSeq(d, 1, i)

\* d.replace(p, r, 1)
ReplaceFirst(d, p, r) ==
    LET i == Find(d, p)
    IN  IF i = 0 THEN d
        ELSE Upto(d, i - 1) \o r \o From(d, i - 1 + Len(p))

\* d.replace(p, r): every occurrence, scanning left to right, the scan
\* resuming after each occurrence replaced
RECURSIVE ReplaceAll(_, _, _)
ReplaceAll(d, p, r) ==
    LET i == Find(d, p)
    IN  IF i = 0 THEN d
        ELSE Upto(d, i - 1) \o r \o ReplaceAll(From(d, i - 1 + Len(p)), p, r)

\* d.count(p): non-overlapping occurrences, left to right
RECURSIVE Count(_, _)
Count(d, p) ==
    LET i == Find(d, p)
    IN  IF i = 0 THEN 0 ELSE 1 + Count(From(d, i - 1 + Len(p)), p)

\* "".join(parts)
RECURSIVE Join(_)
Join(parts) == IF parts = <<>> THEN <<>> ELSE Head(parts) \o Join(Tail(parts))

(***************************************************************************)
(* Module constants of the script                                          *)
(***************************************************************************)
\* The banner's paragraph is one fragment; its backquotes (around llama.cpp,
\* llama-embedded-cli and llama-server) are left out, a TLA+ string holding none.
README_BANNER ==
    << "# embedded-llama overlay", NL, NL,
       "This fork keeps upstream llama.cpp intact and adds an embedded, no-HTTP CLI (llama-embedded-cli) so chat, completion, embeddings, rerank, tokenize, etc. can run in-process without starting llama-server. The original upstream README begins below for reference.",
       NL, NL, "---", NL, NL >>

README_ORIGINAL == << "# llama.cpp" >>

CMAKE_NEEDLE == << "add_subdirectory(embedded-cli)" >>

CMAKE_SERVER_LINE == << "add_subdirectory(server)" >>

CMAKE_HOOKED == CMAKE_SERVER_LINE \o << NL, SP8 >> \o CMAKE_NEEDLE

DISABLED_JOBS == << "windows-sycl:", "windows-hip:", "macOS-x64:", "ios-xcode-build:" >>

REQUIRED_NEEDS ==
    << "ubuntu-22-cuda", "ubuntu-22-cpu", "ubuntu-22-vulkan", "windows",
       "windows-cpu", "windows-cuda", "macOS-arm64" >>

CUDA_MARKER == << "cuda-compiler-12-4" >>

CUDA_INSTALL == << "sudo apt-get install -y cuda-toolkit-12-4" >>

CUDA_INSTALL_FIXED == CUDA_INSTALL \o << SPACE >> \o CUDA_MARKER

CUDACXX_MARKER == << "CUDACXX: /usr/local/cuda/bin/nvcc" >>

needle ==
    << SP6, DASH, "name: Build", NL,
       SP8, "id: cmake_build", NL,
       SP8, "run: |", NL,
       SP10, "cmake -B build \\", NL >>

env_block ==
    << SP6, DASH, "name: Build", NL,
       SP8, "id: cmake_build", NL,
       SP8, "env:", NL,
       SP10 >> \o CUDACXX_MARKER \o << NL,
       SP10, "CUDA_HOME: /usr/local/cuda", NL,
       SP10, "PATH: /usr/local/cuda/bin:${PATH}", NL,
       SP8, "run: |", NL,
       SP10, "cmake -B build \\", NL >>

S390X_ENTRY ==
    << SP10, DASH, "build: 's390x'", NL,
       SP12, "os: ubuntu-24.04-s390x", NL >>

OPENCL_ADRENO_ENTRY ==
    << SP10, DASH, "backend: 'opencl-adreno'", NL,
       SP12, "arch: 'arm64'", NL,
       SP12, "defines: '-G \"Ninja Multi-Config\" -D CMAKE_TOOLCHAIN_FILE=cmake/arm64-windows-llvm.cmake -DCMAKE_PREFIX_PATH=\"$env:RUNNER_TEMP/opencl-arm64-release\" -DGGML_OPENCL=ON -DGGML_OPENCL_USE_ADRENO_KERNELS=ON'", NL,
       SP12, "target: 'ggml-opencl'", NL >>

needs_prefix == << SP4, "needs:", NL >>

BLANK_LINE == << NL, NL >>

\* f"{job}\n    if: ${{ false }}"
marker(job) == << job, NL, SP4, "if: ${ false }" >>


(***************************************************************************)
(* Bounds                                                                  *)
(***************************************************************************)
\* successive invocations of main() on the same tree
MaxRuns == 2
\* nesting depth of a removable matrix entry wrapped in copies of itself
MaxNest == 2
\* how many of the input's parts may differ from a freshly synced upstream tree
MaxDeviations == 3

(***************************************************************************)
(* State                                                                   *)
(***************************************************************************)
VARIABLES
    readme,        \* REPO / "README.md": [exists, text]
    cmake,         \* REPO / "tools" / "CMakeLists.txt"
    release,       \* RELEASE_WORKFLOW
    pc,            \* position in main() and in ensure_release_workflow()
    run,           \* number of the current invocation of main()
    changed,       \* main(): the list changed
    data,          \* ensure_release_workflow(): the local data
    wf_changed,    \* ensure_release_workflow(): the local changed
    out,           \* standard output of the current invocation
    err,           \* the exception that ended the invocation, "" if none
    start,         \* the three files as they were when the invocation began
    prev_data,     \* data before the latest step of ensure_release_workflow()
    prev_changed,  \* changed before that step
    orig_markers   \* per job: marker occurrences in the original release.yml

vars == << readme, cmake, release, pc, run, changed, data, wf_changed, out, err,
           start, prev_data, prev_changed, orig_markers >>

File(text) == [exists |-> TRUE, text |-> text]
Absent == [exists |-> FALSE, text |-> <<>>]

Jobs == 1..Len(DISABLED_JOBS)


(***************************************************************************)
(* ensure_readme_banner() and ensure_cmake_hook(): what a call does to its *)
(* file.  raise: the exception's message ("" if the call returns);         *)
(* written: whether write_text ran; text: the file's text afterwards;      *)
(* ret: the value returned.                                                *)
(***************************************************************************)
Returns(written, text, ret) ==
    [raise |-> "", written |-> written, text |-> text, ret |-> ret]

Raises(msg, text) ==
    [raise |-> msg, written |-> FALSE, text |-> text, ret |-> FALSE]

\* Variant: the text is written before the header is classified.
ensure_readme_banner_writes_first(f) ==
    IF ~f.exists THEN Raises("FileNotFoundError: README.md", f.text)
    ELSE IF StartsWith(f.text, README_BANNER) THEN Returns(FALSE, f.text, FALSE)
    ELSE IF StartsWith(f.text, README_ORIGINAL)
         THEN Returns(TRUE, README_BANNER \o f.text, TRUE)
    ELSE [raise |-> "README.md header not recognized; manual merge needed",
          written |-> TRUE, text |-> README_BANNER \o f.text, ret |-> FALSE]

\* Variant: the check for the original header is left out.
ensure_readme_banner_any_header(f) ==
    IF ~f.exists THEN Raises("FileNotFoundError: README.md", f.text)
    ELSE IF StartsWith(f.text, README_BANNER) THEN Returns(FALSE, f.text, FALSE)
    ELSE Returns(TRUE, README_BANNER \o f.text, TRUE)

ensure_readme_banner(f) ==
    IF ~f.exists THEN Raises("FileNotFoundError: README.md", f.text)
    ELSE IF StartsWith(f.text, README_BANNER) THEN Returns(FALSE, f.text, FALSE)
    ELSE IF StartsWith(f.text, README_ORIGINAL)
         THEN Returns(TRUE, README_BANNER \o f.text, TRUE)
    ELSE Raises("README.md header not recognized; manual merge needed", f.text)

ensure_cmake_hook(f) ==
    IF ~f.exists THEN Raises("FileNotFoundError: tools/CMakeLists.txt", f.text)
    ELSE IF Contains(f.text, CMAKE_NEEDLE) THEN Returns(FALSE, f.text, FALSE)
    ELSE IF ~Contains(f.text, CMAKE_SERVER_LINE)
         THEN Raises("tools/CMakeLists.txt does not contain add_subdirectory(server); manual merge needed", f.text)
    ELSE LET new_data == ReplaceFirst(f.text, CMAKE_SERVER_LINE, CMAKE_HOOKED)
         IN  IF new_data = f.text
             THEN Raises("Failed to inject embedded-cli hook; manual merge needed", f.text)
             ELSE Returns(TRUE, new_data, TRUE)

(***************************************************************************)
(* ensure_release_workflow(): its steps on the locals data and changed.    *)
(* Each yields [raise, data, changed].                                     *)
(***************************************************************************)
Step(d, c) == [raise |-> "", data |-> d, changed |-> c]

Fails(msg, d, c) == [raise |-> msg, data |-> d, changed |-> c]

\* lines 70-76
cuda_edit(d, c) ==
    IF ~Contains(d, CUDA_MARKER)
    THEN Step(ReplaceFirst(d, CUDA_INSTALL, CUDA_INSTALL_FIXED), TRUE)
    ELSE Step(d, c)

\* lines 78-98
cudacxx_edit(d, c) ==
    IF ~Contains(d, CUDACXX_MARKER)
    THEN IF ~Contains(d, needle)
         THEN Fails("release.yml format changed; cannot insert CUDACXX env", d, c)
         ELSE Step(ReplaceFirst(d, needle, env_block), TRUE)
    ELSE Step(d, c)

\* lines 101-108
remove_entries(d, c) ==
    LET data_old == d
        d1 == ReplaceAll(d, S390X_ENTRY, <<>>)
        d2 == ReplaceAll(d1, OPENCL_ADRENO_ENTRY, <<>>)
    IN  Step(d2, IF d2 # data_old THEN TRUE ELSE c)

\* str.splitlines(): the lines of b, without their newlines
RECURSIVE splitlines(_)
splitlines(b) ==
    IF b = <<>> THEN <<>>
    ELSE LET i == Find(b, <<NL>>)
         IN  IF i = 0 THEN <<b>>
             ELSE <<Upto(b, i - 1)>> \o splitlines(From(b, i))

\* str.lstrip() and str.rstrip() of a line: whole fragments of white space
RECURSIVE lstrip(_)
lstrip(l) ==
    IF l # <<>> /\ Head(l) \in Whitespace THEN lstrip(Tail(l)) ELSE l

RECURSIVE rstrip(_)
rstrip(l) ==
    IF l # <<>> /\ l[Len(l)] \in Whitespace THEN rstrip(Upto(l, Len(l) - 1)) ELSE l

strip(l) == rstrip(lstrip(l))

\* line.strip().startswith("- "): the space of a DASH that ends the line is
\* stripped with the rest, and "-" alone does not start with "- "
is_item(l) == Len(strip(l)) >= 2 /\ Head(strip(l)) = DASH

\* SelectSeq with a one-argument test
filter_items(ls) == SelectSeq(ls, is_item)

\* lines 114-119: the names listed between the first needs_prefix and the
\* first blank line after it; each name is the text after "- "
needs_start(d) == Find(d, needs_prefix) - 1 + Len(needs_prefix)

needs_end_rel(d) == Find(From(d, needs_start(d)), BLANK_LINE) - 1

current_block(d) == Upto(From(d, needs_start(d)), needs_end_rel(d))

current_needs(d) ==
    LET needs_lines == filter_items(splitlines(current_block(d)))
    IN  [i \in 1..Len(needs_lines) |-> Tail(strip(needs_lines[i]))]

\* REQUIRED_NEEDS as texts
required_needs == [i \in 1..Len(REQUIRED_NEEDS) |-> <<REQUIRED_NEEDS[i]>>]

\* line 121
new_block ==
    Join([i \in 1..Len(REQUIRED_NEEDS) |-> <<SP6, DASH, REQUIRED_NEEDS[i], NL>>])

\* Variant: the rest is taken from one character too far.
rewrite_needs_off_by_one(d) ==
    Upto(d, needs_start(d)) \o new_block
        \o From(From(d, needs_start(d)), needs_end_rel(d) + 1)

\* line 122
rewrite_needs(d) ==
    Upto(d, needs_start(d)) \o new_block
        \o From(From(d, needs_start(d)), needs_end_rel(d))

\* Variant: str.find in place of str.index, a missing blank line read as the
\* end of the text.
needs_edit_to_end(d, c) ==
    IF ~Contains(d, needs_prefix)
    THEN Fails("release.yml missing needs block for release job", d, c)
    ELSE IF ~Contains(From(d, needs_start(d)), BLANK_LINE)
    THEN Step(Upto(d, needs_start(d)) \o new_block, TRUE)
    ELSE IF current_needs(d) # required_needs
    THEN Step(rewrite_needs(d), TRUE)
    ELSE Step(d, c)

\* Variant: the lists are compared as sets.
needs_edit_by_membership(d, c) ==
    IF ~Contains(d, needs_prefix)
    THEN Fails("release.yml missing needs block for release job", d, c)
    ELSE IF ~Contains(From(d, needs_start(d)), BLANK_LINE)
    THEN Fails("ValueError: substring not found", d, c)
    ELSE IF {current_needs(d)[i] : i \in DOMAIN current_needs(d)}
               # {required_needs[i] : i \in DOMAIN required_needs}
    THEN Step(rewrite_needs(d), TRUE)
    ELSE Step(d, c)

\* lines 111-123
needs_edit(d, c) ==
    IF ~Contains(d, needs_prefix)
    THEN Fails("release.yml missing needs block for release job", d, c)
    ELSE IF ~Contains(From(d, needs_start(d)), BLANK_LINE)
    THEN Fails("ValueError: substring not found", d, c)
    ELSE IF current_needs(d) # required_needs
    THEN Step(rewrite_needs(d), TRUE)
    ELSE Step(d, c)

\* line 128
should_disable(d, job) == ~Contains(d, marker(job)) /\ Contains(d, <<job>>)

\* Variant: str.replace without its count, every header marked.
RECURSIVE disable_from_every(_, _, _)
disable_from_every(d, c, i) ==
    IF i > Len(DISABLED_JOBS) THEN Step(d, c)
    ELSE LET job == DISABLED_JOBS[i]
         IN  IF should_disable(d, job)
             THEN disable_from_every(ReplaceAll(d, <<job>>, marker(job)), TRUE, i + 1)
             ELSE disable_from_every(d, c, i + 1)

\* lines 126-130, from the i-th job on
RECURSIVE disable_from(_, _, _)
disable_from(d, c, i) ==
    IF i > Len(DISABLED_JOBS) THEN Step(d, c)
    ELSE LET job == DISABLED_JOBS[i]
         IN  IF should_disable(d, job)
             THEN disable_from(ReplaceFirst(d, <<job>>, marker(job)), TRUE, i + 1)
             ELSE disable_from(d, c, i + 1)

disable_jobs_every(d, c) == disable_from_every(d, c, 1)

disable_jobs(d, c) == disable_from(d, c, 1)


(***************************************************************************)
(* The input trees.  Each part of the tree has a list of forms; form 1 is  *)
(* the freshly synced upstream form, on which every edit is still to do.   *)
(***************************************************************************)
UpstreamReadme == README_ORIGINAL \o << NL, NL, "LLM inference in C/C++", NL >>

ReadmeForms ==
    << File(UpstreamReadme),
       File(README_BANNER \o UpstreamReadme),
       \* a banner cut short: starts with neither form
       File(Upto(README_BANNER, 3) \o UpstreamReadme),
       File(<<>>),
       Absent >>

OtherSubdir == << SP8, "add_subdirectory(tokenize)", NL >>

CmakeForms ==
    << File(OtherSubdir \o <<SP8>> \o CMAKE_SERVER_LINE \o <<NL>>),
       File(OtherSubdir \o <<SP8>> \o CMAKE_HOOKED \o <<NL>>),
       File(OtherSubdir),
       File(OtherSubdir \o <<SP8>> \o CMAKE_NEEDLE \o <<NL>>),
       File(<<SP8>> \o CMAKE_SERVER_LINE \o <<NL>> \o OtherSubdir
                \o <<SP8>> \o CMAKE_SERVER_LINE \o <<NL>>),
       Absent >>

CudaForms ==
    << <<SP10>> \o CUDA_INSTALL \o <<NL>>,
       <<SP10>> \o CUDA_INSTALL_FIXED \o <<NL>>,
       <<>> >>

BuildForms == << needle, env_block, <<>> >>

\* an entry wrapped k-1 times in its own first and last line
RECURSIVE Nested(_)
Nested(k) ==
    IF k <= 1 THEN S390X_ENTRY
    ELSE Upto(S390X_ENTRY, 4) \o Nested(k - 1) \o From(S390X_ENTRY, 4)

MatrixForms ==
    << S390X_ENTRY \o OPENCL_ADRENO_ENTRY,
       <<>>,
       Upto(S390X_ENTRY, 4) \o OPENCL_ADRENO_ENTRY \o From(S390X_ENTRY, 4) >>
    \o [k \in 1..(MaxNest - 1) |-> Nested(k + 1)]

RunsOn == << SP4, "runs-on: ubuntu-22.04", NL >>

IfFalse == << SP4, "if: ${ false }", NL >>

JobHeader(i) == << SP2, DISABLED_JOBS[i], NL >>

JobsForms ==
    << Join([i \in Jobs |-> JobHeader(i) \o RunsOn]),
       <<>>,
       Join([i \in Jobs |-> JobHeader(i) \o IfFalse \o RunsOn]),
       JobHeader(1) \o RunsOn \o JobHeader(1) \o RunsOn,
       JobHeader(1) \o RunsOn \o JobHeader(1) \o IfFalse \o RunsOn,
       \* twice: a removable entry between a header and an if line
       JobHeader(1) \o S390X_ENTRY \o IfFalse
           \o JobHeader(1) \o S390X_ENTRY \o IfFalse >>

Items(names) == Join([i \in 1..Len(names) |-> <<SP6, DASH, names[i], NL>>])

UpstreamNeeds ==
    << "windows", "windows-cpu", "windows-cuda", "windows-sycl",
       "ubuntu-22-cpu", "macOS-arm64", "macOS-x64" >>

Swapped == << REQUIRED_NEEDS[2], REQUIRED_NEEDS[1] >> \o From(REQUIRED_NEEDS, 2)

Steps == << SP4, "steps:", NL >>

\* the canonical names on lines of another layout, among lines that list nothing
LooseCanonical ==
    << SP6, "# jobs to wait for", NL >>
    \o Join([i \in 1..Len(REQUIRED_NEEDS) |->
                <<SP8, DASH, REQUIRED_NEEDS[i], SPACE, NL>>])
    \o JobHeader(1)

NeedsForms ==
    << needs_prefix \o Items(UpstreamNeeds) \o <<NL>> \o Steps,
       needs_prefix \o Items(REQUIRED_NEEDS) \o <<NL>> \o Steps,
       needs_prefix \o Items(Swapped) \o <<NL>> \o Steps,
       needs_prefix \o Items(Upto(REQUIRED_NEEDS, 6)) \o <<NL>> \o Steps,
       needs_prefix \o <<NL, NL>> \o Steps,
       needs_prefix \o LooseCanonical \o <<NL>> \o Steps,
       needs_prefix \o <<SP6, DASH, SPACE, REQUIRED_NEEDS[1], NL>>
           \o Items(From(REQUIRED_NEEDS, 1)) \o <<NL>> \o Steps,
       Steps,
       needs_prefix \o Items(REQUIRED_NEEDS) \o Steps,
       needs_prefix \o Items(REQUIRED_NEEDS) \o <<NL>> \o Steps
           \o needs_prefix \o Items(UpstreamNeeds) \o <<NL>> \o Steps >>

Head1 == << "name: Release", NL, NL, "jobs:", NL >>

ReleaseText(cu, bu, ma, jo, ne) ==
    Head1 \o JobsForms[jo] \o CudaForms[cu] \o BuildForms[bu]
          \o MatrixForms[ma] \o NeedsForms[ne]

Dev(k) == IF k = 1 THEN 0 ELSE 1

marker_counts(text) ==
    [i \in Jobs |-> Count(text, marker(DISABLED_JOBS[i]))]

(***************************************************************************)
(* main()                                                                  *)
(***************************************************************************)
Init ==
    \E r \in 1..Len(ReadmeForms), c \in 1..Len(CmakeForms), ex \in BOOLEAN,
       cu \in 1..Len(CudaForms), bu \in 1..Len(BuildForms),
       ma \in 1..Len(MatrixForms), jo \in 1..Len(JobsForms),
       ne \in 1..Len(NeedsForms) :
        /\ Dev(r) + Dev(c) + (IF ex THEN 0 ELSE 1)
             + Dev(cu) + Dev(bu) + Dev(ma) + Dev(jo) + Dev(ne) <= MaxDeviations
        /\ ~ex => cu = 1 /\ bu = 1 /\ ma = 1 /\ jo = 1 /\ ne = 1
        /\ readme = ReadmeForms[r]
        /\ cmake = CmakeForms[c]
        /\ release = IF ex THEN File(ReleaseText(cu, bu, ma, jo, ne)) ELSE Absent
        /\ start = [readme |-> readme, cmake |-> cmake, release |-> release]
        /\ orig_markers = marker_counts(release.text)
        /\ pc = "readme"
        /\ run = 1
        /\ changed = <<>>
        /\ data = <<>>
        /\ wf_changed = FALSE
        /\ prev_data = <<>>
        /\ prev_changed = FALSE
        /\ out = <<>>
        /\ err = ""

locals == << data, wf_changed, prev_data, prev_changed >>

\* an uncaught exception ends the invocation where it is raised
Abort(msg) ==
    /\ pc' = pc
    /\ err' = msg

\* lines 139-140
ReadmeStep ==
    /\ pc = "readme"
    /\ err = ""
    /\ LET r == ensure_readme_banner(readme)
       IN  /\ readme' = IF r.written THEN File(r.text) ELSE readme
           /\ IF r.raise # ""
              THEN Abort(r.raise) /\ UNCHANGED changed
              ELSE /\ pc' = "cmake"
                   /\ err' = err
                   /\ changed' = IF r.ret THEN Append(changed, "README.md (banner)")
                                 ELSE changed
    /\ UNCHANGED << cmake, release, run, out, start, locals, orig_markers >>

\* lines 141-142
CmakeStep ==
    /\ pc = "cmake"
    /\ err = ""
    /\ LET r == ensure_cmake_hook(cmake)
       IN  /\ cmake' = IF r.written THEN File(r.text) ELSE cmake
           /\ IF r.raise # ""
              THEN Abort(r.raise) /\ UNCHANGED changed
              ELSE /\ pc' = "release"
                   /\ err' = err
                   /\ changed' = IF r.ret
                                 THEN Append(changed, "tools/CMakeLists.txt (embedded-cli hook)")
                                 ELSE changed
    /\ UNCHANGED << readme, release, run, out, start, locals, orig_markers >>

\* Variant: the file is read without the test that it exists.
ReleaseOpenUnchecked ==
    /\ pc = "release"
    /\ err = ""
    /\ IF ~release.exists
       THEN Abort("FileNotFoundError: .github/workflows/release.yml")
            /\ UNCHANGED locals
       ELSE /\ pc' = "cuda"
            /\ err' = err
            /\ data' = release.text
            /\ wf_changed' = FALSE
            /\ prev_data' = release.text
            /\ prev_changed' = FALSE
    /\ UNCHANGED << readme, cmake, release, run, changed, out, start,
                    orig_markers >>

\* lines 63-67: return False when the file is absent, else read it
ReleaseOpen ==
    /\ pc = "release"
    /\ err = ""
    /\ IF ~release.exists
       THEN pc' = "print" /\ UNCHANGED locals
       ELSE /\ pc' = "cuda"
            /\ data' = release.text
            /\ wf_changed' = FALSE
            /\ prev_data' = release.text
            /\ prev_changed' = FALSE
    /\ UNCHANGED << readme, cmake, release, run, changed, out, err, start,
                    orig_markers >>

\* one step of ensure_release_workflow() on its locals
Apply(r, next) ==
    /\ prev_data' = data
    /\ prev_changed' = wf_changed
    /\ data' = r.data
    /\ wf_changed' = r.changed
    /\ IF r.raise # "" THEN Abort(r.raise) ELSE pc' = next /\ err' = err
    /\ UNCHANGED << readme, cmake, release, run, changed, out, start, orig_markers >>

\* lines 70-76
CudaStep ==
    /\ pc = "cuda"
    /\ err = ""
    /\ Apply(cuda_edit(data, wf_changed), "env")

\* lines 78-98
EnvStep ==
    /\ pc = "env"
    /\ err = ""
    /\ Apply(cudacxx_edit(data, wf_changed), "remove")

\* lines 101-108
RemoveStep ==
    /\ pc = "remove"
    /\ err = ""
    /\ Apply(remove_entries(data, wf_changed), "needs")

\* lines 111-123
NeedsStep ==
    /\ pc = "needs"
    /\ err = ""
    /\ Apply(needs_edit(data, wf_changed), "disable")

\* lines 126-130
DisableStep ==
    /\ pc = "disable"
    /\ err = ""
    /\ Apply(disable_jobs(data, wf_changed), "write")

\* lines 132-134 and 143-144
WriteStep ==
    /\ pc = "write"
    /\ err = ""
    /\ release' = IF wf_changed THEN File(data) ELSE release
    /\ changed' = IF wf_changed
                  THEN Append(changed, ".github/workflows/release.yml (release defaults)")
                  ELSE changed
    /\ pc' = "print"
    /\ UNCHANGED << readme, cmake, run, out, err, start, locals, orig_markers >>

\* ", ".join(labels)
RECURSIVE JoinComma(_)
JoinComma(labels) ==
    IF Len(labels) <= 1 THEN labels
    ELSE << Head(labels), ", " >> \o JoinComma(Tail(labels))

\* lines 146-149
report(labels) ==
    IF labels = <<>> THEN << "Nothing to reapply; overlays already present." >>
    ELSE << "Reapplied overlays: " >> \o JoinComma(labels)

PrintStep ==
    /\ pc = "print"
    /\ err = ""
    /\ out' = report(changed)
    /\ pc' = "done"
    /\ UNCHANGED << readme, cmake, release, run, changed, err, start, locals,
                    orig_markers >>

\* the script is run again on the tree the last run left
RunAgain ==
    /\ pc = "done"
    /\ err = ""
    /\ run < MaxRuns
    /\ run' = run + 1
    /\ pc' = "readme"
    /\ changed' = <<>>
    /\ out' = <<>>
    /\ data' = <<>>
    /\ wf_changed' = FALSE
    /\ prev_data' = <<>>
    /\ prev_changed' = FALSE
    /\ start' = [readme |-> readme, cmake |-> cmake, release |-> release]
    /\ UNCHANGED << readme, cmake, release, err, orig_markers >>

Next ==
    \/ ReadmeStep
    \/ CmakeStep
    \/ ReleaseOpen
    \/ CudaStep
    \/ EnvStep
    \/ RemoveStep
    \/ NeedsStep
    \/ DisableStep
    \/ WriteStep
    \/ PrintStep
    \/ RunAgain

Spec == Init /\ [][Next]_vars


(***************************************************************************)
(* Properties                                                              *)
(***************************************************************************)
files == [readme |-> readme, cmake |-> cmake, release |-> release]

aborted == err # ""

ReleaseLabel == ".github/workflows/release.yml (release defaults)"

NothingToReapply == << "Nothing to reapply; overlays already present." >>

InReleaseSteps == pc \in {"cuda", "env", "remove", "needs", "disable", "write"}

\* C1: content idempotence: a run of main() that follows a run that
\* completed normally leaves README.md, tools/CMakeLists.txt and release.yml
\* as that first run left them.
ContentIdempotence == run >= 2 => files = start

\* C2: report idempotence: in a run that follows a run that completed
\* normally, every reconciler returns False and the summary printed is
\* "Nothing to reapply; overlays already present."
ReportIdempotence ==
    run >= 2 =>
        /\ ~aborted
        /\ changed = <<>>
        /\ pc = "done" => out = NothingToReapply

\* C3 as claimed: when a reconciler ends the run with a fatal error, none of
\* the three files differs from what it was before the run.
NoPartialApplication == aborted => files = start

\* C3 as amended: when a reconciler ends the run with a fatal error, its own
\* file and the files of the reconcilers after it are as they were before the
\* run (a reconciler that returned before the failure may have written its
\* file).
AbortLeavesFailingAndLaterFiles ==
    aborted =>
        /\ pc = "readme" => files = start
        /\ pc = "cmake" => cmake = start.cmake /\ release = start.release
        /\ InReleaseSteps => release = start.release
        /\ pc \in {"readme", "cmake"} \/ InReleaseSteps
        /\ out = <<>>

\* C3's case: the CMake reconciler fails after the README was rewritten
CmakeFailsAfterReadmeWritten ==
    /\ aborted
    /\ pc = "cmake"
    /\ readme # start.readme
    /\ StartsWith(readme.text, README_BANNER)

UnrecognizedReadme(f) ==
    /\ f.exists
    /\ ~StartsWith(f.text, README_BANNER)
    /\ ~StartsWith(f.text, README_ORIGINAL)

ReadmeNotRecognized == "README.md header not recognized; manual merge needed"

\* C4: when README.md starts with neither the banner nor "# llama.cpp", the
\* run ends in ensure_readme_banner with the header-not-recognized error:
\* README.md is not written, ensure_cmake_hook and ensure_release_workflow
\* are not reached (their files are untouched) and nothing is printed.
FailFastReadme ==
    UnrecognizedReadme(start.readme) =>
        /\ pc = "readme"
        /\ files = start
        /\ changed = <<>>
        /\ out = <<>>
        /\ aborted => err = ReadmeNotRecognized

\* C4's case: the run has ended on an unrecognized README
ReadmeRejected ==
    /\ UnrecognizedReadme(start.readme)
    /\ err = ReadmeNotRecognized
    /\ readme.text # <<>>

\* C5: required-anchor guard: no required edit (CMake hook, cuda-compiler,
\* CUDACXX env) is passed with its applied-marker and its needle both absent;
\* the run ends there in a fatal error with the target file not written.
RequiredAnchorGuard ==
    /\ (pc = "release" /\ ~aborted) =>
          \/ Contains(start.cmake.text, CMAKE_NEEDLE)
          \/ Contains(start.cmake.text, CMAKE_SERVER_LINE)
    /\ (pc = "env" /\ ~aborted) =>
          \/ Contains(prev_data, CUDA_MARKER)
          \/ Contains(prev_data, CUDA_INSTALL)
    /\ (pc = "remove" /\ ~aborted) =>
          \/ Contains(prev_data, CUDACXX_MARKER)
          \/ Contains(prev_data, needle)
    /\ (pc = "cmake" /\ aborted) => cmake = start.cmake
    /\ (pc \in {"cuda", "env"} /\ aborted) => release = start.release

HasNeedsBlock(d) ==
    /\ Contains(d, needs_prefix)
    /\ Contains(From(d, needs_start(d)), BLANK_LINE)

NeedsErrors ==
    { "release.yml missing needs block for release job",
      "ValueError: substring not found" }

\* C6: when the text that reaches the needs step lacks "    needs:\n", or has
\* no two consecutive newlines after its first occurrence, the run ends there
\* abnormally and release.yml is as it was before the run, whatever the
\* earlier steps of the pass did to the text in memory.
MissingNeedsMarkerFatal ==
    /\ pc \in {"disable", "write"} => HasNeedsBlock(prev_data)
    /\ (pc = "needs" /\ aborted) =>
          /\ ~HasNeedsBlock(data)
          /\ err \in NeedsErrors
          /\ release = start.release
          /\ out = <<>>
    /\ (pc \in {"print", "done"} /\ release.exists) => HasNeedsBlock(release.text)

\* C6's case: no blank line follows the needs marker, after edits in memory
NeedsBoundaryMissing ==
    /\ pc = "needs"
    /\ err = "ValueError: substring not found"
    /\ Contains(data, needs_prefix)
    /\ wf_changed
    /\ data # release.text
    /\ release = start.release

\* C7: order sensitivity: when the names listed in the needs block differ
\* from REQUIRED_NEEDS in value or order, the needs step sets changed and the
\* names listed afterwards are REQUIRED_NEEDS in order, also in the text
\* written; when they are equal the step leaves text and flag alone.
OrderSensitivity ==
    /\ pc = "disable" =>
          IF current_needs(prev_data) # required_needs
          THEN wf_changed /\ current_needs(data) = required_needs
          ELSE data = prev_data /\ wf_changed = prev_changed
    /\ pc = "write" =>
          /\ current_needs(data) = required_needs
          /\ current_needs(release.text) # required_needs => wf_changed
    /\ (pc \in {"print", "done"} /\ release.exists) =>
          current_needs(release.text) = required_needs

Range(f) == {f[i] : i \in DOMAIN f}

\* C7's case: the canonical names in another order have been rewritten
PermutedNeedsRewritten ==
    /\ pc = "disable"
    /\ current_needs(prev_data) # required_needs
    /\ Len(current_needs(prev_data)) = Len(required_needs)
    /\ Range(current_needs(prev_data)) = Range(required_needs)
    /\ data # prev_data

\* C8: the needs step changes the block only: the text up to and including
\* the first "    needs:\n" and the text from the first blank line after it
\* to the end are the same before and after, with the old or the new block
\* and nothing else between them.
NeedsNonInterference ==
    pc = "disable" =>
        LET s == needs_start(prev_data)
            rest == From(From(prev_data, s), needs_end_rel(prev_data))
        IN  /\ Upto(data, s) = Upto(prev_data, s)
            /\ From(data, Len(data) - Len(rest)) = rest
            /\ StartsWith(rest, BLANK_LINE)
            /\ SubSeq(data, s + 1, Len(data) - Len(rest))
                  \in {current_block(prev_data), new_block}

\* C8's case: a block has been rewritten between text that stayed
NeedsBlockRewritten ==
    /\ pc = "disable"
    /\ data # prev_data
    /\ needs_start(prev_data) > Len(needs_prefix)
    /\ Len(From(From(prev_data, needs_start(prev_data)),
                needs_end_rel(prev_data))) > Len(BLANK_LINE)

\* C9: when release.yml does not exist, no step of ensure_release_workflow
\* runs, the file is not created, its label is neither collected nor printed,
\* and the run can only fail in the README or the CMake reconciler.
OptionalWorkflowAbsent ==
    ~start.release.exists =>
        /\ ~release.exists
        /\ ~InReleaseSteps
        /\ ReleaseLabel \notin Range(changed)
        /\ ReleaseLabel \notin Range(out)
        /\ aborted => pc \in {"readme", "cmake"}
        /\ pc = "done" => out = report(changed)

\* C9's case: a run without release.yml has completed and printed its summary
CompletedWithoutWorkflow ==
    /\ ~start.release.exists
    /\ pc = "done"
    /\ ~aborted
    /\ out # <<>>

\* C10 as claimed: per job of DISABLED_JOBS, release.yml never holds more
\* than one marker more than the original document held.
MarkerCountBound ==
    release.exists =>
        \A i \in Jobs :
            Count(release.text, marker(DISABLED_JOBS[i])) <= orig_markers[i] + 1

\* C10 as amended: in each pass of the disable loop, per job: the marker is
\* inserted only when the text entering the loop has the header and not the
\* marker, at the header's first occurrence, leaving exactly one marker; it
\* is not inserted when a marker is present; the count rises by at most one
\* over the text entering the loop (not over the original document); a header
\* that is absent is skipped, and a pass that inserts nothing leaves the text
\* and the flag alone.
MarkerInsertedAtMostOnce ==
    pc = "write" =>
        /\ \A i \in Jobs :
              LET job == << DISABLED_JOBS[i] >>
                  m == marker(DISABLED_JOBS[i])
                  before == Count(prev_data, m)
                  after == Count(data, m)
              IN  /\ after <= before + 1
                  /\ (before = 0 /\ Contains(prev_data, job)) =>
                        /\ after = 1
                        /\ Find(data, m) = Find(data, job)
                        /\ wf_changed
                  /\ before > 0 => after = before
                  /\ ~Contains(prev_data, job) => ~Contains(data, job) /\ after = 0
                  /\ Count(data, job) = Count(prev_data, job)
        /\ (\A i \in Jobs :
               \/ Contains(prev_data, marker(DISABLED_JOBS[i]))
               \/ ~Contains(prev_data, << DISABLED_JOBS[i] >>)) =>
              data = prev_data /\ wf_changed = prev_changed
        /\ ~aborted

\* C10's case: a header present twice got its one marker, another was absent
MarkerInsertedOnce ==
    /\ pc = "write"
    /\ Count(prev_data, << DISABLED_JOBS[1] >>) = 2
    /\ Count(prev_data, marker(DISABLED_JOBS[1])) = 0
    /\ Count(data, marker(DISABLED_JOBS[1])) = 1
    /\ ~Contains(prev_data, << DISABLED_JOBS[2] >>)

====
